---- MODULE Spec2Model ----
(***************************************************************************)
(* RF link planner: the tower/link graph kept by the RFLinkPlanner         *)
(* component (src/unnamed/part_000), its frequency-text parser and the     *)
(* handlers that mutate the two collections.                               *)
(*                                                                         *)
(* Frequency texts are sequences of one-character strings, so that         *)
(* trim / toLowerCase / endsWith / parseFloat are computed character by    *)
(* character.  A JavaScript number is a record                             *)
(*     [k |-> "nan" | "inf" | "fin", s |-> 1 | -1, m |-> Nat, e |-> Int]   *)
(* standing for NaN, s*Infinity, or the decimal s * m * 10^e (m carries no *)
(* trailing zero; zero is m = 0, e = 0, s = 1).  Arithmetic on these       *)
(* records is exact decimal arithmetic; the texts used are chosen so that  *)
(* binary rounding does not decide any comparison.                         *)
(***************************************************************************)
EXTENDS Integers, Sequences, FiniteSets, TLC

(* ------------------------------ bounds -------------------------------- *)
\* addTower is not offered once the next id would exceed MaxTowerId
MaxTowerId == 3
\* createLink is not offered once linkId.current has reached MaxLinkId + 1
MaxLinkId == 3
\* a session is followed for at most MaxOps handler invocations
MaxOps == 5
\* generateFresnelEllipse is tried with every steps in 0 .. MaxSteps besides
\* the 180 its one caller passes
MaxSteps == 4

(* ------------------------- JavaScript numbers ------------------------- *)
NaN == [k |-> "nan", s |-> 1, m |-> 0, e |-> 0]
Inf(sg) == [k |-> "inf", s |-> sg, m |-> 0, e |-> 0]

RECURSIVE Pow10(_)
Pow10(n) == IF n <= 0 THEN 1 ELSE 10 * Pow10(n - 1)

RECURSIVE NumDigits(_)
NumDigits(n) == IF n < 10 THEN 1 ELSE 1 + NumDigits(n \div 10)

RECURSIVE StripZeros(_, _)
StripZeros(m, e) ==
  IF m = 0 THEN <<0, 0>>
  ELSE IF m % 10 = 0 THEN StripZeros(m \div 10, e + 1)
  ELSE <<m, e>>

\* the double nearest to sg * m * 10^e: overflow gives Infinity, underflow 0
\* (Number.MAX_VALUE ~ 1.797e308, Number.MIN_VALUE ~ 4.9e-324)
Normalised(sg, m, e) ==
  IF m = 0 THEN [k |-> "fin", s |-> 1, m |-> 0, e |-> 0]
  ELSE IF NumDigits(m) + e - 1 > 308 THEN Inf(sg)
  ELSE IF NumDigits(m) + e - 1 < -324
    THEN [k |-> "fin", s |-> 1, m |-> 0, e |-> 0]
  ELSE [k |-> "fin", s |-> sg, m |-> m, e |-> e]

Fin(sg, m, e) == Normalised(sg, StripZeros(m, e)[1], StripZeros(m, e)[2])

isNaN(x) == x.k = "nan"
IsZero(x) == x.k = "fin" /\ x.m = 0

\* x * 10^p for p in {0, 6, 9}  (the products "parseFloat(s) * 1e9" etc.)
MulPow10(x, p) ==
  IF x.k = "fin" THEN Fin(x.s, x.m, x.e + p) ELSE x

\* position of the leading digit of a nonzero finite magnitude
Mag(x) == NumDigits(x.m) + x.e

\* magnitudes of two nonzero finite numbers whose Mag differ by at most 1,
\* scaled to a common exponent
Aligned(x, y) ==
  LET c == IF x.e < y.e THEN x.e ELSE y.e IN
  <<x.m * Pow10(x.e - c), y.m * Pow10(y.e - c)>>

\* x < y on magnitudes |x|, |y| of finite numbers
MagLess(x, y) ==
  IF x.m = 0 THEN y.m # 0
  ELSE IF y.m = 0 THEN FALSE
  ELSE IF Mag(x) # Mag(y) THEN Mag(x) < Mag(y)
  ELSE LET a == Aligned(x, y) IN a[1] < a[2]

\* the IEEE comparison x >= 1 (false for NaN)
GeOne(x) ==
  CASE x.k = "nan" -> FALSE
    [] x.k = "inf" -> x.s = 1
    [] OTHER -> x.s = 1 /\ ~MagLess(x, [k |-> "fin", s |-> 1, m |-> 1, e |-> 0])

(*  The comparison of Math.abs(fa - fb) with 1e-6 * Math.max(fa, fb), for  *)
(*  as IEEE 754 orders them: "le", "gt", or "un" (unordered: one side of   *)
(*  the comparison is NaN, so that both <= and > are false).               *)
TolCmp(fa, fb) ==
  CASE isNaN(fa) \/ isNaN(fb) -> "un"
    [] fa.k = "inf" /\ fb.k = "inf" ->
         \* same sign: Inf - Inf = NaN; opposite: abs = Inf, max = +Inf
         IF fa.s = fb.s THEN "un" ELSE "le"
    [] fa.k = "inf" /\ fb.k = "fin" ->
         \* abs = Inf; max = +Inf when fa = +Inf, else fb (finite)
         IF fa.s = 1 THEN "le" ELSE "gt"
    [] fa.k = "fin" /\ fb.k = "inf" ->
         IF fb.s = 1 THEN "le" ELSE "gt"
    [] OTHER ->
         IF fa = fb
           \* difference 0 against 1e-6 * value
           THEN (IF fa.s = 1 THEN "le" ELSE "gt")
         ELSE IF IsZero(fa) \/ IsZero(fb) \/ fa.s # fb.s \/ fa.s = -1
           \* the difference is positive and is at least max, or max <= 0
           THEN "gt"
         ELSE IF Mag(fa) - Mag(fb) > 1 \/ Mag(fb) - Mag(fa) > 1
           \* one is less than a tenth of the other
           THEN "gt"
         ELSE LET a  == Aligned(fa, fb)
                  hi == IF a[1] > a[2] THEN a[1] ELSE a[2]
                  lo == IF a[1] > a[2] THEN a[2] ELSE a[1]
              IN IF hi - lo <= 2000 /\ (hi - lo) * 1000000 <= hi
                   THEN "le" ELSE "gt"

(* --------------------------- text functions --------------------------- *)
WhiteSpace == {" ", "\t", "\n", "\r"}
UpperCase == <<"A","B","C","D","E","F","G","H","I","J","K","L","M",
               "N","O","P","Q","R","S","T","U","V","W","X","Y","Z">>
LowerCase == <<"a","b","c","d","e","f","g","h","i","j","k","l","m",
               "n","o","p","q","r","s","t","u","v","w","x","y","z">>

LowerChar(c) ==
  IF \E i \in 1..26 : UpperCase[i] = c
    THEN LowerCase[CHOOSE i \in 1..26 : UpperCase[i] = c]
    ELSE c

toLowerCase(s) == [i \in 1..Len(s) |-> LowerChar(s[i])]

RECURSIVE trimStart(_)
trimStart(s) ==
  IF s # <<>> /\ s[1] \in WhiteSpace THEN trimStart(Tail(s)) ELSE s

RECURSIVE trimEnd(_)
trimEnd(s) ==
  IF s # <<>> /\ s[Len(s)] \in WhiteSpace
    THEN trimEnd(SubSeq(s, 1, Len(s) - 1)) ELSE s

trim(s) == trimEnd(trimStart(s))

endsWith(s, suf) ==
  Len(s) >= Len(suf) /\ SubSeq(s, Len(s) - Len(suf) + 1, Len(s)) = suf

startsWithAt(s, i, pre) ==
  Len(s) >= i + Len(pre) - 1 /\ SubSeq(s, i, i + Len(pre) - 1) = pre

IsDigit(c) == c \in {"0","1","2","3","4","5","6","7","8","9"}

DigitVal(c) ==
  CASE c = "0" -> 0 [] c = "1" -> 1 [] c = "2" -> 2 [] c = "3" -> 3
    [] c = "4" -> 4 [] c = "5" -> 5 [] c = "6" -> 6 [] c = "7" -> 7
    [] c = "8" -> 8 [] c = "9" -> 9

\* first index >= i of s that holds no digit
RECURSIVE DigitsEnd(_, _)
DigitsEnd(s, i) ==
  IF i <= Len(s) /\ IsDigit(s[i]) THEN DigitsEnd(s, i + 1) ELSE i

RECURSIVE DigitsInt(_)
DigitsInt(d) ==
  IF d = <<>> THEN 0
  ELSE 10 * DigitsInt(SubSeq(d, 1, Len(d) - 1)) + DigitVal(d[Len(d)])

RECURSIVE DropTrailingZeros(_)
DropTrailingZeros(d) ==
  IF d # <<>> /\ d[Len(d)] = "0"
    THEN DropTrailingZeros(SubSeq(d, 1, Len(d) - 1)) ELSE d

(*  parseFloat: after leading white space, the longest prefix that is a    *)
(*  decimal literal  [+-] ( Infinity | digits [. digits] [e [+-] digits] ) *)
(*  is converted; NaN when there is none.  The steps below pass on the     *)
(*  text s, the sign sg, and the indices found so far: the integer digits  *)
(*  are s[i..ie-1], the fraction digits s[fs..fe-1], the exponent digits   *)
(*  s[xs..xe-1].                                                           *)
DecimalValue(sg, intD, fracD, expV) ==
  Fin(sg, DigitsInt(DropTrailingZeros(intD \o fracD)),
      Len(intD) + Len(fracD) - Len(DropTrailingZeros(intD \o fracD))
        - Len(fracD) + expV)

ParseExponentDigits(s, sg, i, ie, fs, fe, xsg, xs, xe) ==
  DecimalValue(sg, SubSeq(s, i, ie - 1), SubSeq(s, fs, fe - 1),
               IF xe > xs THEN xsg * DigitsInt(SubSeq(s, xs, xe - 1)) ELSE 0)

ParseExponentSign(s, sg, i, ie, fs, fe) ==
  IF fe + 1 <= Len(s) /\ s[fe + 1] \in {"+", "-"}
    THEN ParseExponentDigits(s, sg, i, ie, fs, fe,
           IF s[fe + 1] = "-" THEN -1 ELSE 1, fe + 2, DigitsEnd(s, fe + 2))
    ELSE ParseExponentDigits(s, sg, i, ie, fs, fe, 1, fe + 1,
           DigitsEnd(s, fe + 1))

ParseExponent(s, sg, i, ie, fs, fe) ==
  IF ie = i /\ fe = fs THEN NaN
  ELSE IF fe <= Len(s) /\ s[fe] \in {"e", "E"}
    THEN ParseExponentSign(s, sg, i, ie, fs, fe)
    ELSE DecimalValue(sg, SubSeq(s, i, ie - 1), SubSeq(s, fs, fe - 1), 0)

ParseFraction(s, sg, i, ie) ==
  IF ie <= Len(s) /\ s[ie] = "."
    THEN ParseExponent(s, sg, i, ie, ie + 1, DigitsEnd(s, ie + 1))
    ELSE ParseExponent(s, sg, i, ie, ie, ie)

ParseUnsigned(s, sg, i) ==
  IF startsWithAt(s, i, <<"I","n","f","i","n","i","t","y">>) THEN Inf(sg)
  ELSE ParseFraction(s, sg, i, DigitsEnd(s, i))

ParseSigned(s) ==
  IF s # <<>> /\ s[1] \in {"+", "-"}
    THEN ParseUnsigned(s, IF s[1] = "-" THEN -1 ELSE 1, 2)
    ELSE ParseUnsigned(s, 1, 1)

parseFloat(s0) == ParseSigned(trimStart(s0))

ScaleByUnit(s) ==
  IF endsWith(s, <<"g","h","z">>) THEN MulPow10(parseFloat(s), 9)
  ELSE IF endsWith(s, <<"m","h","z">>) THEN MulPow10(parseFloat(s), 6)
  ELSE IF endsWith(s, <<"h","z">>) THEN parseFloat(s)
  ELSE IF isNaN(parseFloat(s)) THEN NaN
  ELSE IF GeOne(parseFloat(s)) THEN MulPow10(parseFloat(s), 9)
  ELSE MulPow10(parseFloat(s), 6)

parseFreqHz(freq) ==
  IF freq = <<>> THEN NaN ELSE ScaleByUnit(toLowerCase(trim(freq)))

(* --------------------------- frequency texts -------------------------- *)
DefaultFreq == <<"5"," ","G","H","z">>

\* the texts a frequency edit may put into a tower
FreqTexts ==
  { DefaultFreq,
    <<"5",".","0","0","0","0","0","1"," ","G","H","z">>,
    <<"2",".","4"," ","G","H","z">>,
    <<>>,
    <<"1","e","9","9","9">> }

\* texts written in the forms of the frequency convention, each with the
\* number and the unit it spells: num.m * 10^num.e, unit "" for a bare number
ConventionCases ==
  { [text |-> <<"5">>,                         num |-> <<5, 0>>,  unit |-> ""],
    [text |-> DefaultFreq,                     num |-> <<5, 0>>,  unit |-> "ghz"],
    [text |-> <<"5","0","0","0","m","h","z">>, num |-> <<5, 3>>,  unit |-> "mhz"],
    [text |-> <<"5","G","H","Z">>,             num |-> <<5, 0>>,  unit |-> "ghz"],
    [text |-> <<"2",".","4"," ","G","H","z">>, num |-> <<24, -1>>, unit |-> "ghz"],
    [text |-> <<"2","4","0","0"," ","M","H","z">>,
                                               num |-> <<24, 2>>, unit |-> "mhz"],
    [text |-> <<"0",".","5">>,                 num |-> <<5, -1>>, unit |-> ""],
    [text |-> <<"5","0","0","0","0","0"," ","h","z">>,
                                               num |-> <<5, 5>>,  unit |-> "hz"],
    [text |-> <<"5",".","0","0","0","0","0","1"," ","G","H","z">>,
                                               num |-> <<5000001, -6>>, unit |-> "ghz"],
    [text |-> <<"1","e","9","9","9">>,         num |-> <<1, 999>>, unit |-> ""] }

ConventionTexts == { c.text : c \in ConventionCases }

\* texts of a second editing session: three frequencies 4 kHz apart around
\* 5 GHz, where the tolerance is 5 kHz, and a frequency of zero
EditTexts ==
  { DefaultFreq,
    <<"5",".","0","0","0","0","0","4"," ","G","H","z">>,
    <<"5",".","0","0","0","0","0","8"," ","G","H","z">>,
    <<"0">> }

\* parseFreqHz on the texts of the model, evaluated once
FreqHz ==
  [f \in FreqTexts \cup ConventionTexts \cup EditTexts |-> parseFreqHz(f)]

(* ------------------------------ geometry ------------------------------ *)
\* the map positions a click or a position patch may carry (degrees)
Positions == { [lat |-> 0, lng |-> 0], [lat |-> 0, lng |-> 1] }

(*  Real-valued results are kept as terms [zero, of]: "of" is the           *)
(*  expression the code evaluates and "zero" tells whether its value is    *)
(*  exactly 0.  The haversine distance of two points with the same         *)
(*  coordinates is 0 (Dx = Dy = 0, val = 0, atan2(0, 1) = 0); the two      *)
(*  positions of the model are distinct points, whose distance is not 0.   *)
distanceMeters(a, b) ==
  [zero |-> (a.lat = b.lat /\ a.lng = b.lng),
   of |-> <<"haversine", a.lat, a.lng, b.lat, b.lng>>]

\* d / 2
Halved(d) == [zero |-> d.zero, of |-> <<"/", d.of, 2>>]

\* x * k for a number k that is not 0
Times(x, k) == [zero |-> x.zero, of |-> <<"*", x.of, k>>]

\* 3e8 / freqHz: 0 exactly when freqHz is an infinity
Wavelength(freqHz) ==
  [zero |-> freqHz.k = "inf", of |-> <<"3e8/", freqHz>>]

fresnelRadius_NoGuard(lambda, d1, d2) ==
  [zero |-> FALSE, of |-> <<"sqrt", lambda.of, d1.of, d2.of>>]

\* if (d1 + d2 === 0) return 0; distances are never negative, so the sum
\* is 0 exactly when both are.  Otherwise the square root of
\* lambda * d1 * d2 / (d1 + d2), which is 0 when a factor is
fresnelRadius(lambda, d1, d2) ==
  IF d1.zero /\ d2.zero THEN [zero |-> TRUE, of |-> <<0>>]
  ELSE [zero |-> lambda.zero \/ d1.zero \/ d2.zero,
        of |-> <<"sqrt", lambda.of, d1.of, d2.of>>]

computeSimpleFresnel(a, b, freqHz) ==
  LET d == distanceMeters(a, b)
      lambda == Wavelength(freqHz)
      rMid == fresnelRadius(lambda, Halved(d), Halved(d))
  IN [totalDist |-> d, rMidMeters |-> rMid]

SCALE_FACTOR == 400

\* for (let i = 0; i <= steps; i++) { ... pts.push([p2.lat, p2.lon]); }
\* each point is kept as the index i of the angle i / steps * 2 * PI it
\* was sampled at
\* was sampled at: the loop pushes once for every i of indices, in
\* increasing order
SampleLoop(indices) ==
  [j \in 1 .. Cardinality(indices) |-> j - 1]

EllipseSamples_Exclusive(steps) ==
  SampleLoop({ i \in 0 .. steps : i < steps })

\* const pts = []; the loop over i = 0, i <= steps; return pts
EllipseSamples(steps) ==
  SampleLoop({ i \in 0 .. steps : i <= steps })

generateFresnelEllipse_AxisScaled(lat1, lon1, lat2, lon2, rMidMeters, steps) ==
  LET d == distanceMeters([lat |-> lat1, lng |-> lon1],
                          [lat |-> lat2, lng |-> lon2])
  IN [semiMajor |-> Times(Halved(d), 2),
      semiMinor |-> rMidMeters,
      bearing   |-> <<"bearing", lat1, lon1, lat2, lon2>>,
      center2   |-> <<lat1 + lat2, lon1 + lon2>>,
      pts       |-> EllipseSamples(steps)]

\* the ring of points, kept as the ellipse it samples (its two semi-axes,
\* its centre and its bearing) and the sample indices in the order pushed
generateFresnelEllipse(lat1, lon1, lat2, lon2, rMidMeters, steps) ==
  LET d == distanceMeters([lat |-> lat1, lng |-> lon1],
                          [lat |-> lat2, lng |-> lon2])
  IN [semiMajor |-> Halved(d),
      semiMinor |-> rMidMeters,
      bearing   |-> <<"bearing", lat1, lon1, lat2, lon2>>,
      center2   |-> <<lat1 + lat2, lon1 + lon2>>,
      pts       |-> EllipseSamples(steps)]

(* -------------------------------- state ------------------------------- *)
VARIABLES
  towers,         \* useState([]): sequence of [id, lat, lng, freqStr]
  links,          \* useState([]): sequence of [id, aId, bId, freqStr, fresnel]
  selectedTower,  \* useState(null)
  selectedLink,   \* useState(null)
  message,        \* useState("Click map to add towers (default 5 GHz)")
  linkId,         \* useRef(1)
  nOps,           \* history: handler invocations since the initial state
  assignedIds,    \* history: every tower id addTower has handed out
  assignedLinkIds,\* history: every link id createLink has handed out
  editedSince,    \* history: ids of the links whose cached visualization is
                  \*          older than the latest updateTower of an endpoint
  last            \* history: the handler that ran last, its first argument
                  \*          (and the second of createLink), how many links
                  \*          it dropped, and what it reported

vars == <<towers, links, selectedTower, selectedLink, message, linkId,
          nOps, assignedIds, assignedLinkIds, editedSince, last>>

\* JavaScript null for the two selections
Null == 0

InitialMessage == "Click map to add towers (default 5 GHz)"
MismatchMessage == "Frequencies do not match"
DuplicateMessage == "Link already exists"

\* ids a caller may pass: those of the towers (links) present, those of
\* towers (links) since removed, and one id that was never handed out;
\* calls on any two ids never handed out act alike
AbsentTowerId == MaxTowerId + 1
AbsentLinkId == MaxLinkId + 1
TowerIdArgs == assignedIds \cup {AbsentTowerId}
LinkIdArgs == assignedLinkIds \cup {AbsentLinkId}

Range(f) == { f[i] : i \in DOMAIN f }

RECURSIVE SetMax(_)
SetMax(S) ==
  LET x == CHOOSE y \in S : TRUE IN
  IF S = {x} THEN x
  ELSE LET r == SetMax(S \ {x}) IN IF x > r THEN x ELSE r

\* Array.prototype.find by id: the first element with that id, as a
\* sequence of length 0 (undefined) or 1
find(arr, id) ==
  LET hits == { i \in DOMAIN arr : arr[i].id = id } IN
  IF hits = {} THEN <<>>
  ELSE <<arr[CHOOSE i \in hits : \A j \in hits : i <= j]>>

Note2(op, id, other, n, tag) ==
  [op |-> op, id |-> id, other |-> other, n |-> n, tag |-> tag]

Note(op, id, n, tag) == Note2(op, id, Null, n, tag)

Init ==
  /\ towers = <<>>
  /\ links = <<>>
  /\ selectedTower = Null
  /\ selectedLink = Null
  /\ message = InitialMessage
  /\ linkId = 1
  /\ nOps = 0
  /\ assignedIds = {}
  /\ assignedLinkIds = {}
  /\ editedSince = {}
  /\ last = Note("init", 0, 0, "")

(* ------------------------------ addTower ------------------------------ *)
NewTowerId_ByLength(prev) == Len(prev) + 1

\* prev.length === 0 ? 1 : Math.max(...prev.map((p) => p.id)) + 1
NewTowerId(prev) ==
  IF Len(prev) = 0 THEN 1 ELSE SetMax({ prev[i].id : i \in DOMAIN prev }) + 1

addTower(pos) ==
  LET newId == NewTowerId(towers) IN
  /\ newId <= MaxTowerId
  /\ towers' = Append(towers, [id |-> newId, lat |-> pos.lat, lng |-> pos.lng,
                               freqStr |-> DefaultFreq])
  /\ assignedIds' = assignedIds \cup {newId}
  /\ last' = Note("addTower", newId, 0,
                  IF newId \in assignedIds THEN "reused" ELSE "fresh")
  /\ UNCHANGED <<links, selectedTower, selectedLink, message, linkId,
                 assignedLinkIds, editedSince>>

(* ----------------------------- updateTower ---------------------------- *)
\* { ...t, ...patch }
Patched(t, patch) ==
  [f \in DOMAIN t |-> IF f \in DOMAIN patch THEN patch[f] ELSE t[f]]

LinkInvalid_NoNaNTest(updated, lnk) ==
  LET a == find(updated, lnk.aId)
      b == find(updated, lnk.bId)
  IN IF a = <<>> \/ b = <<>> THEN TRUE
     ELSE TolCmp(FreqHz[a[1].freqStr], FreqHz[b[1].freqStr]) = "gt"

\* the test of updateTower's link scan: TRUE when the link is dropped
LinkInvalid(updated, lnk) ==
  LET a == find(updated, lnk.aId)
      b == find(updated, lnk.bId)
  IN IF a = <<>> \/ b = <<>> THEN TRUE
     ELSE LET fa == FreqHz[a[1].freqStr]
              fb == FreqHz[b[1].freqStr]
          IN isNaN(fa) \/ isNaN(fb) \/ TolCmp(fa, fb) = "gt"

FreqPatches == { [freqStr |-> f] : f \in FreqTexts }
EditPatches == { [freqStr |-> f] : f \in EditTexts }
PosPatches == { [lat |-> p.lat, lng |-> p.lng] : p \in Positions }

\* what setSelectedLink(null) at the end of updateTower stores
SelectionAfterUpdate_Kept(sel) == sel

SelectionAfterUpdate(sel) == Null

updateTower(id, patch) ==
  LET updated == [i \in DOMAIN towers |->
                    IF towers[i].id = id THEN Patched(towers[i], patch)
                    ELSE towers[i]]
      kept == SelectSeq(links, LAMBDA lnk : ~LinkInvalid(updated, lnk))
  IN /\ towers' = updated
     /\ links' = kept
     /\ selectedLink' = SelectionAfterUpdate(selectedLink)
     /\ last' = Note("updateTower", id, Len(links) - Len(kept),
                     IF "freqStr" \in DOMAIN patch THEN "freq" ELSE "pos")
     /\ editedSince' =
          { l.id : l \in { x \in Range(kept) :
                             /\ x.fresnel # <<>>
                             /\ x.id \in editedSince \/ x.aId = id \/ x.bId = id } }
     /\ UNCHANGED <<selectedTower, message, linkId, assignedIds,
                    assignedLinkIds>>

(* ----------------------------- removeTower ---------------------------- *)
LinksAfterRemoveTower_NoCascade(prev, id) == prev

LinksAfterRemoveTower_OneSided(prev, id) ==
  SelectSeq(prev, LAMBDA l : l.aId # id)

\* prev.filter((l) => l.aId !== id && l.bId !== id)
LinksAfterRemoveTower(prev, id) ==
  SelectSeq(prev, LAMBDA l : l.aId # id /\ l.bId # id)

removeTower(id) ==
  LET keptLinks == LinksAfterRemoveTower(links, id) IN
  /\ towers' = SelectSeq(towers, LAMBDA t : t.id # id)
  /\ links' = keptLinks
  /\ selectedTower' = Null
  /\ last' = Note("removeTower", id, Len(links) - Len(keptLinks), "")
  /\ editedSince' = editedSince \cap { l.id : l \in Range(keptLinks) }
  /\ UNCHANGED <<selectedLink, message, linkId, assignedIds,
                 assignedLinkIds>>

(* ------------------------------ createLink ---------------------------- *)
canLink(a, b) ==
  LET fa == FreqHz[a.freqStr]
      fb == FreqHz[b.freqStr]
  IN IF isNaN(fa) \/ isNaN(fb) THEN FALSE
     ELSE TolCmp(fa, fb) = "le"

LinkExists_OneWay(aId, bId) ==
  \E i \in DOMAIN links : links[i].aId = aId /\ links[i].bId = bId

\* links.some(...): a link on the pair, stored either way round
LinkExists(aId, bId) ==
  \E i \in DOMAIN links :
    \/ links[i].aId = aId /\ links[i].bId = bId
    \/ links[i].aId = bId /\ links[i].bId = aId

IsSelfLink_Never(aId, bId) == FALSE

\* if (aId === bId) return;
IsSelfLink(aId, bId) == aId = bId

NextLinkId_ByLength == Len(links) + 1

\* linkId.current, as read by linkId.current++
NextLinkId == linkId

CounterAfterCreate_Always(made) == linkId + 1

\* linkId.current after the call: the ++ sits on the path that appends
CounterAfterCreate(made) == linkId + Len(made)

(*  What one call of createLink does: the message it sets ("" when it     *)
(*  sets none) and the link it appends (none: <<>>).  It returns undefined *)
(*  on every path.                                                         *)
createLinkResult(aId, bId) ==
  LET a == find(towers, aId)
      b == find(towers, bId)
  IN IF IsSelfLink(aId, bId) THEN [said |-> "", made |-> <<>>]
     ELSE IF a = <<>> \/ b = <<>> THEN [said |-> "", made |-> <<>>]
     ELSE IF ~canLink(a[1], b[1]) THEN [said |-> MismatchMessage, made |-> <<>>]
     ELSE IF LinkExists(aId, bId) THEN [said |-> DuplicateMessage, made |-> <<>>]
     ELSE [said |-> "",
           made |-> << [id |-> NextLinkId, aId |-> aId, bId |-> bId,
                        freqStr |-> a[1].freqStr, fresnel |-> <<>>] >>]

createLink(aId, bId) ==
  LET r == createLinkResult(aId, bId) IN
  /\ r.made # <<>> => linkId <= MaxLinkId
  /\ links' = links \o r.made
  /\ linkId' = CounterAfterCreate(r.made)
  /\ message' = IF r.said = "" THEN message ELSE r.said
  /\ last' = Note2("createLink", aId, bId, 0,
                   IF r.made # <<>> THEN "created" ELSE r.said)
  /\ assignedLinkIds' = assignedLinkIds \cup { l.id : l \in Range(r.made) }
  /\ UNCHANGED <<towers, selectedTower, selectedLink, assignedIds,
                 editedSince>>

(* ------------------------------ removeLink ---------------------------- *)
LinksAfterRemoveLink_Inverted(prev, id) ==
  SelectSeq(prev, LAMBDA l : l.id = id)

\* prev.filter((l) => l.id !== id)
LinksAfterRemoveLink(prev, id) ==
  SelectSeq(prev, LAMBDA l : l.id # id)

removeLink(id) ==
  LET keptLinks == LinksAfterRemoveLink(links, id) IN
  /\ links' = keptLinks
  /\ selectedLink' = Null
  /\ last' = Note("removeLink", id, Len(links) - Len(keptLinks), "")
  /\ editedSince' = editedSince \cap { l.id : l \in Range(keptLinks) }
  /\ UNCHANGED <<towers, selectedTower, message, linkId, assignedIds,
                 assignedLinkIds>>

(* ------------------------------ onLinkClick --------------------------- *)
WithFresnel_Appended(prev, id, fresnel) ==
  prev \o SelectSeq([i \in DOMAIN prev |-> [prev[i] EXCEPT !.fresnel = <<fresnel>>]],
                    LAMBDA x : x.id = id)

\* prev.map((x) => (x.id === l.id ? { ...x, fresnel: {...} } : x))
WithFresnel(prev, id, fresnel) ==
  [i \in DOMAIN prev |->
     IF prev[i].id = id THEN [prev[i] EXCEPT !.fresnel = <<fresnel>>]
     ELSE prev[i]]

\* l is the link object of the row or polyline that was clicked
onLinkClick(l) ==
  LET a == find(towers, l.aId)
      b == find(towers, l.bId)
  IN
  /\ selectedLink' = l.id
  /\ last' = Note("onLinkClick", l.id, 0, "")
  /\ UNCHANGED <<towers, selectedTower, message, linkId, assignedIds,
                 assignedLinkIds>>
  /\ editedSince' = IF a = <<>> \/ b = <<>> THEN editedSince
                     ELSE editedSince \ {l.id}
  /\ IF a = <<>> \/ b = <<>> THEN UNCHANGED links
     ELSE LET freqHz == FreqHz[l.freqStr]
              fresnelInfo == computeSimpleFresnel(a[1], b[1], freqHz)
              rMidScaled == Times(fresnelInfo.rMidMeters, SCALE_FACTOR)
              pts == generateFresnelEllipse(a[1].lat, a[1].lng, b[1].lat,
                       b[1].lng, rMidScaled, 180)
          IN links' = WithFresnel(links, l.id,
                                  [polygonPoints |-> pts,
                                   rMidMeters |-> fresnelInfo.rMidMeters,
                                   distance |-> fresnelInfo.totalDist,
                                   freq |-> l.freqStr])

(* ---------------------------- message timer --------------------------- *)
\* useEffect: a non-empty message is cleared after 3 s
messageTimeout ==
  /\ message # ""
  /\ message' = ""
  /\ last' = Note("messageTimeout", 0, 0, "")
  /\ UNCHANGED <<towers, links, selectedTower, selectedLink, linkId,
                 assignedIds, assignedLinkIds, editedSince>>

(* -------------------------------- system ------------------------------ *)
Tick == nOps < MaxOps /\ nOps' = nOps + 1

AddTowerStep == Tick /\ \E pos \in Positions : addTower(pos)
UpdateFreqStep == Tick /\ \E id \in TowerIdArgs, p \in FreqPatches : updateTower(id, p)
UpdatePosStep == Tick /\ \E id \in TowerIdArgs, p \in PosPatches : updateTower(id, p)
RemoveTowerStep == Tick /\ \E id \in TowerIdArgs : removeTower(id)
CreateLinkStep == Tick /\ \E aId \in TowerIdArgs, bId \in TowerIdArgs : createLink(aId, bId)
RemoveLinkStep == Tick /\ \E id \in LinkIdArgs : removeLink(id)
LinkClickStep == Tick /\ \E i \in DOMAIN links : onLinkClick(links[i])
MessageTimeoutStep == Tick /\ messageTimeout

Next ==
  \/ AddTowerStep
  \/ UpdateFreqStep
  \/ UpdatePosStep
  \/ RemoveTowerStep
  \/ CreateLinkStep
  \/ RemoveLinkStep
  \/ LinkClickStep
  \/ MessageTimeoutStep

Spec == Init /\ [][Next]_vars

\* the state after addTower at (0, 0), addTower at (0, 1) and
\* createLink(1, 2), from which edits of both towers of a link come within
\* the depth bound
InitLinked ==
  /\ towers = << [id |-> 1, lat |-> 0, lng |-> 0, freqStr |-> DefaultFreq],
                 [id |-> 2, lat |-> 0, lng |-> 1, freqStr |-> DefaultFreq] >>
  /\ links = << [id |-> 1, aId |-> 1, bId |-> 2, freqStr |-> DefaultFreq,
                 fresnel |-> <<>>] >>
  /\ selectedTower = Null
  /\ selectedLink = Null
  /\ message = InitialMessage
  /\ linkId = 2
  /\ nOps = 0
  /\ assignedIds = {1, 2}
  /\ assignedLinkIds = {1}
  /\ editedSince = {}
  /\ last = Note2("createLink", 1, 2, 0, "created")

SpecLinked == InitLinked /\ [][Next]_vars

\* the states after addTower, addTower and one frequency edit of each
\* tower, for every two texts of the convention; from them createLink
InitTexts ==
  /\ \E fa \in ConventionTexts, fb \in ConventionTexts :
       towers = << [id |-> 1, lat |-> 0, lng |-> 0, freqStr |-> fa],
                   [id |-> 2, lat |-> 0, lng |-> 1, freqStr |-> fb] >>
  /\ links = <<>>
  /\ selectedTower = Null
  /\ selectedLink = Null
  /\ message = InitialMessage
  /\ linkId = 1
  /\ nOps = 0
  /\ assignedIds = {1, 2}
  /\ assignedLinkIds = {}
  /\ editedSince = {}
  /\ last = Note("updateTower", 2, 0, "freq")

NextTexts == CreateLinkStep

SpecTexts == InitTexts /\ [][NextTexts]_vars

\* the component with the frequency edits drawn from EditTexts
UpdateEditStep == Tick /\ \E id \in TowerIdArgs, p \in EditPatches : updateTower(id, p)

NextEdits ==
  \/ AddTowerStep
  \/ UpdateEditStep
  \/ UpdatePosStep
  \/ RemoveTowerStep
  \/ CreateLinkStep
  \/ RemoveLinkStep
  \/ LinkClickStep
  \/ MessageTimeoutStep

SpecEdits == Init /\ [][NextEdits]_vars

(* ====================================================================== *)
(*                               Properties                               *)
(* ====================================================================== *)
TowerIds == { towers[i].id : i \in DOMAIN towers }
TowerOf(id) == towers[CHOOSE i \in DOMAIN towers : towers[i].id = id]
Hz(text) == FreqHz[text]
Incident(l, id) == l.aId = id \/ l.bId = id
Pair(l) == {l.aId, l.bId}

\* |fa - fb| <= 1e-6 * max(fa, fb), on numbers
WithinTolerance(fa, fb) == ~isNaN(fa) /\ ~isNaN(fb) /\ TolCmp(fa, fb) = "le"

\* the endpoint towers of link l, read from tower collection tw, match
EndpointsMatchIn(tw, l) ==
  \E i \in DOMAIN tw, j \in DOMAIN tw :
    /\ tw[i].id = l.aId
    /\ tw[j].id = l.bId
    /\ WithinTolerance(Hz(tw[i].freqStr), Hz(tw[j].freqStr))

\* a step of the named handler
StepOf(op) == nOps' = nOps + 1 /\ last'.op = op

(* C1: in every reachable state there is at most one link per unordered    *)
(* tower pair: no two distinct stored links join the same two towers.      *)
C1_OneLinkPerPair ==
  \A i \in DOMAIN links, j \in DOMAIN links :
    i # j => Pair(links[i]) # Pair(links[j])

\* createLink has just refused a second link on the pair of the stored link,
\* named the same way round
C1_Witness ==
  /\ last.op = "createLink"
  /\ last.tag = DuplicateMessage
  /\ Len(links) = 1
  /\ links[1].aId = last.id

(* C2: in every reachable state both endpoint towers of every stored link  *)
(* resolve, through parseFreqHz of their current text, to frequencies      *)
(* within relative tolerance 1e-6 of the larger one.                       *)
C2_EndpointsMatch ==
  \A i \in DOMAIN links : EndpointsMatchIn(towers, links[i])

(* C3: in every reachable state every stored link has aId # bId and both   *)
(* ids are ids of towers currently present.                                *)
C3_EndpointsExist ==
  \A i \in DOMAIN links :
    /\ links[i].aId # links[i].bId
    /\ links[i].aId \in TowerIds
    /\ links[i].bId \in TowerIds

\* createLink has just refused, without a message, a self link or a link to
\* a missing tower, while a link is stored
C3_Witness ==
  /\ last.op = "createLink"
  /\ last.tag = ""
  /\ Len(links) >= 1

(* C4: after removeTower(id) no remaining link has aId = id or bId = id,   *)
(* the tower with that id is gone, and every other tower and every link    *)
(* not incident to id is exactly as it was.                                *)
C4_RemoveTowerCascade ==
  [][StepOf("removeTower") =>
       /\ \A l \in Range(links') : ~Incident(l, last'.id)
       /\ \A t \in Range(towers') : t.id # last'.id
       /\ Range(towers') = { t \in Range(towers) : t.id # last'.id }
       /\ Range(links') = { l \in Range(links) : ~Incident(l, last'.id) }
       /\ Len(towers') = Cardinality(Range(towers'))
       /\ Len(links') = Cardinality(Range(links'))]_vars

\* removeTower has just removed a tower and its link; two towers remain
C4_Witness ==
  /\ last.op = "removeTower"
  /\ last.n >= 1
  /\ last.id \notin TowerIds
  /\ Len(towers) >= 2

(* C5: updateTower(t, {frequency}) removes exactly the links incident to t *)
(* whose two endpoint frequencies no longer match after the patch; links   *)
(* incident to t that still match and all links not incident to t stay.    *)
C5_UpdateDropsExactlyMismatched ==
  [][StepOf("updateTower") /\ last'.tag = "freq" =>
       Range(links') =
         { l \in Range(links) :
             ~(Incident(l, last'.id) /\ ~EndpointsMatchIn(towers', l)) }]_vars

(* C6: the id addTower gives a new tower is strictly greater than every id *)
(* ever given to an earlier tower, removed towers included.                *)
C6_IdsNeverReused ==
  [][StepOf("addTower") => \A x \in assignedIds : last'.id > x]_vars

(* C7: in every reachable state the ids of the towers present are pairwise *)
(* distinct positive integers.                                             *)
C7_TowerIdsDistinctPositive ==
  /\ \A i \in DOMAIN towers : towers[i].id \in Nat /\ towers[i].id >= 1
  /\ \A i \in DOMAIN towers, j \in DOMAIN towers :
       i # j => towers[i].id # towers[j].id

\* addTower has just handed out an id again while other towers are present
C7_Witness ==
  /\ last.op = "addTower"
  /\ last.tag = "reused"
  /\ Len(towers) >= 2

(* C8: createLink(aId, bId) checks, in this order: aId = bId; an id that   *)
(* is no current tower; endpoint frequencies beyond tolerance; a link on   *)
(* the same unordered pair, stored either way round; only when none        *)
(* applies is a link created.                                              *)
C8_Case(aId, bId) ==
  IF aId = bId THEN "SELF_LINK"
  ELSE IF aId \notin TowerIds \/ bId \notin TowerIds THEN "MISSING_TOWER"
  ELSE IF ~WithinTolerance(Hz(TowerOf(aId).freqStr), Hz(TowerOf(bId).freqStr))
    THEN "FREQUENCY_MISMATCH"
  ELSE IF \E l \in Range(links) : Pair(l) = {aId, bId} THEN "DUPLICATE_LINK"
  ELSE "CREATED"

\* what a caller of createLink can observe of one call
C8_Observed(aId, bId) ==
  [said |-> createLinkResult(aId, bId).said,
   created |-> createLinkResult(aId, bId).made # <<>>]

C9_FailsClosedOnNaN ==
  /\ \A i \in DOMAIN links, t \in Range(towers) :
       Incident(links[i], t.id) => ~isNaN(Hz(t.freqStr))
  /\ \A a \in Range(towers), b \in Range(towers) :
       isNaN(Hz(a.freqStr)) \/ isNaN(Hz(b.freqStr)) =>
         createLinkResult(a.id, b.id).made = <<>>

\* updateTower has just made a tower's frequency unparseable and dropped
\* a link of that tower
C9_Witness ==
  /\ last.op = "updateTower"
  /\ last.tag = "freq"
  /\ last.n >= 1
  /\ \E t \in Range(towers) : t.id = last.id /\ isNaN(Hz(t.freqStr))

(* C10 as claimed: whenever updateTower changes a tower, no surviving link *)
(* incident to that tower still holds a visualization computed before the  *)
(* update.                                                                 *)
C10_CacheCleared ==
  [][StepOf("updateTower") /\ towers' # towers =>
       \A l \in Range(links') : Incident(l, last'.id) => l.fresnel = <<>>]_vars

(* C10 as amended: updateTower leaves every surviving link, its cached     *)
(* visualization included, exactly as it was, and clears the link          *)
(* selection, so that no cached polygon is drawn until onLinkClick         *)
(* recomputes it.                                                          *)
C10_SelectionCleared ==
  [][StepOf("updateTower") =>
       /\ selectedLink' = Null
       /\ \A l \in Range(links') : l \in Range(links)]_vars

\* updateTower has just moved a tower whose link holds a visualization
\* computed for the old position; nothing is selected
C10_Witness ==
  /\ last.op = "updateTower"
  /\ last.tag = "pos"
  /\ selectedLink = Null
  /\ \E l \in Range(links) :
       /\ Incident(l, last.id)
       /\ l.fresnel # <<>>
       /\ l.fresnel[1].distance #
            distanceMeters(TowerOf(l.aId), TowerOf(l.bId))

(* C11: a stale polygon is never rendered after an edit: whenever a link   *)
(* is the selected link and holds a cached visualization (the condition    *)
(* under which its polygon is drawn), that visualization was computed by   *)
(* onLinkClick after the latest updateTower of either endpoint.            *)
C11_NoStalePolygon ==
  \A l \in Range(links) :
    selectedLink = l.id /\ l.fresnel # <<>> => l.id \notin editedSince

\* onLinkClick has just drawn the polygon of a link one of whose towers was
\* edited after the link was made
C11_Witness ==
  /\ last.op = "onLinkClick"
  /\ \E l \in Range(links) :
       /\ selectedLink = l.id
       /\ l.fresnel # <<>>
       /\ TowerOf(l.aId).freqStr # l.freqStr

(* C12: onLinkClick computes the visualization from the current state of   *)
(* the link's endpoint towers: the path distance is the distance of their  *)
(* current coordinates, and the frequency used for the wavelength and      *)
(* reported in the visualization is the current frequency of an endpoint   *)
(* tower at the time of the call.  Stated for links whose endpoint towers  *)
(* hold finite frequencies that match each other at the time of the call.  *)
C12_FromCurrentTowers ==
  [][StepOf("onLinkClick") =>
       \A l \in Range(links') :
         /\ l.id = last'.id
         /\ l.fresnel # <<>>
         /\ EndpointsMatchIn(towers, l)
         /\ Hz(TowerOf(l.aId).freqStr).k = "fin"
         /\ Hz(TowerOf(l.bId).freqStr).k = "fin"
         =>
           LET a == TowerOf(l.aId)
               b == TowerOf(l.bId)
           IN /\ l.fresnel[1].distance = distanceMeters(a, b)
              /\ \E t \in {a, b} :
                   /\ Hz(l.fresnel[1].freq) = Hz(t.freqStr)
                   /\ l.fresnel[1].rMidMeters =
                        computeSimpleFresnel(a, b, Hz(t.freqStr)).rMidMeters]_vars

(* C13: every created link gets an id strictly greater than every link id  *)
(* handed out before it, ids of links removed explicitly or by cascade     *)
(* included; so the link ids present are pairwise distinct and the id of   *)
(* a removed link never comes back.                                        *)
C13_LinkIdsFresh ==
  [][/\ StepOf("createLink") /\ last'.tag = "created" =>
          /\ Len(links') = Len(links) + 1
          /\ \A x \in assignedLinkIds : links'[Len(links')].id > x
     /\ \A i \in DOMAIN links', j \in DOMAIN links' :
          i # j => links'[i].id # links'[j].id
     /\ \A l \in Range(links') \ Range(links) :
          l.id \in assignedLinkIds => \E k \in Range(links) : k.id = l.id]_vars

\* createLink has just made a link after the only earlier link was removed
C13_Witness ==
  /\ last.op = "createLink"
  /\ last.tag = "created"
  /\ Len(links) = 1
  /\ assignedLinkIds # { links[1].id }

(* C14: links are only dropped, never repaired: the link collection gains  *)
(* a member only through a successful createLink; addTower, updateTower    *)
(* (also one that restores a matching frequency after a drop),             *)
(* removeTower, removeLink and onLinkClick never add a link.               *)
C14_OnlyCreateLinkAdds ==
  [][( \/ Len(links') > Len(links)
       \/ \E l \in Range(links') : \A k \in Range(links) : k.id # l.id )
     => (last'.op = "createLink" /\ last'.tag = "created")]_vars

\* updateTower has just given two towers matching frequencies again; a link
\* was made earlier, none is stored, and none has come back
C14_Witness ==
  /\ last.op = "updateTower"
  /\ last.tag = "freq"
  /\ assignedLinkIds # {}
  /\ links = <<>>
  /\ Len(towers) = 2
  /\ canLink(towers[1], towers[2])
  /\ \E t \in Range(towers) : t.id = last.id

C16_SameCallAgain ==
  /\ nOps' = nOps + 1
  /\ last'.op = last.op
  /\ CASE last'.op = "addTower" ->
            /\ towers'[Len(towers')].lat = towers[Len(towers)].lat
            /\ towers'[Len(towers')].lng = towers[Len(towers)].lng
       [] last'.op = "updateTower" ->
            /\ last'.id = last.id
            /\ last'.tag = last.tag
            /\ towers' = towers
       [] OTHER ->
            /\ last'.id = last.id
            /\ last'.other = last.other

C17_SameValue(x, y) == (x.zero /\ y.zero) \/ x = y

C18_Denoted(c) ==
  LET shift == CASE c.unit = "ghz" -> 9
                 [] c.unit = "mhz" -> 6
                 [] c.unit = "hz"  -> 0
                 [] OTHER -> IF NumDigits(c.num[1]) + c.num[2] >= 1 THEN 9 ELSE 6
  IN [k |-> "fin", s |-> 1, m |-> c.num[1], e |-> c.num[2] + shift]

C18_CaseOf(text) == CHOOSE c \in ConventionCases : c.text = text

\* two exact decimals are the same number
C18_SameHz(x, y) == StripZeros(x.m, x.e) = StripZeros(y.m, y.e)

\* two exact decimals differ by more than 1e-6 of the larger
C18_BeyondTolerance(x, y) == TolCmp(x, y) = "gt"

(* C18: a text with unit ghz, mhz or hz (any letter case, optional space)  *)
(* resolves to its number times 1e9, 1e6 or 1 Hz, a bare number >= 1 as    *)
(* GHz and a bare number < 1 as MHz; so createLink deems two towers        *)
(* matching when their texts denote the same Hz value, and refuses them    *)
(* as mismatching when the values differ beyond tolerance.                 *)
C18_ConventionDecidesMatching ==
  [][\A a \in Range(towers), b \in Range(towers) :
       ( /\ StepOf("createLink")
         /\ a.id = last'.id
         /\ b.id = last'.other
         /\ a.id # b.id
         /\ a.freqStr \in ConventionTexts
         /\ b.freqStr \in ConventionTexts )
       =>
       ( /\ Hz(a.freqStr) = Fin(1, C18_Denoted(C18_CaseOf(a.freqStr)).m,
                                   C18_Denoted(C18_CaseOf(a.freqStr)).e)
         /\ C18_SameHz(C18_Denoted(C18_CaseOf(a.freqStr)),
                       C18_Denoted(C18_CaseOf(b.freqStr)))
              => last'.tag # MismatchMessage
         /\ C18_BeyondTolerance(C18_Denoted(C18_CaseOf(a.freqStr)),
                                C18_Denoted(C18_CaseOf(b.freqStr)))
              => last'.tag = MismatchMessage )]_vars

(* C19: generateFresnelEllipse returns exactly steps + 1 points, one per   *)
(* sample index i in 0 .. steps, in index order, for any endpoints and     *)
(* radius: for the 181 points every cached polygon holds (steps = 180),    *)
(* and for every steps up to MaxSteps on every pair of positions.          *)
C19_StepsPlusOnePoints ==
  /\ \A l \in Range(links) :
       l.fresnel # <<>> =>
         /\ Len(l.fresnel[1].polygonPoints.pts) = 181
         /\ \A j \in 1 .. 181 : l.fresnel[1].polygonPoints.pts[j] = j - 1
  /\ \A steps \in 0 .. MaxSteps, p \in Positions, q \in Positions :
       \A r \in { fresnelRadius(Wavelength(FreqHz[DefaultFreq]),
                                Halved(distanceMeters(p, q)),
                                Halved(distanceMeters(p, q))) } :
         LET ring == generateFresnelEllipse(p.lat, p.lng, q.lat, q.lng,
                                            r, steps).pts
         IN /\ Len(ring) = steps + 1
            /\ \A j \in 1 .. steps + 1 : ring[j] = j - 1

\* onLinkClick has just cached a polygon
C19_Witness ==
  /\ last.op = "onLinkClick"
  /\ \E l \in Range(links) :
       /\ l.id = last.id
       /\ l.fresnel # <<>>
       /\ Len(l.fresnel[1].polygonPoints.pts) > MaxSteps

(* C20: degenerate geometry gives a defined result: when onLinkClick runs  *)
(* on a link whose two towers have identical coordinates, the cached       *)
(* visualization has path distance 0 and radius 0, the 0 that              *)
(* fresnelRadius returns when d1 + d2 = 0, whatever the frequency is.      *)
C20_DegenerateIsZero ==
  [][StepOf("onLinkClick") =>
       \A l \in Range(links') :
         ( /\ l.id = last'.id
           /\ l.aId \in TowerIds /\ l.bId \in TowerIds
           /\ TowerOf(l.aId).lat = TowerOf(l.bId).lat
           /\ TowerOf(l.aId).lng = TowerOf(l.bId).lng )
         =>
         ( /\ l.fresnel # <<>>
           /\ l.fresnel[1].distance.zero
           /\ l.fresnel[1].rMidMeters = [zero |-> TRUE, of |-> <<0>>] )]_vars

\* onLinkClick has just cached the visualization of a link between two
\* towers at the same place
C20_Witness ==
  /\ last.op = "onLinkClick"
  /\ \E l \in Range(links) :
       /\ l.id = last.id
       /\ TowerOf(l.aId).lat = TowerOf(l.bId).lat
       /\ TowerOf(l.aId).lng = TowerOf(l.bId).lng
       /\ l.fresnel # <<>>
       /\ l.fresnel[1].rMidMeters.zero

(* ---------------------------------------------------------------------- *)
\* C21: a createLink call that is rejected (self link, missing tower,
\* frequency mismatch or duplicate) leaves the towers, the links and the
\* link-id counter as they were, so the id the next accepted createLink
\* hands out is the one it would have handed out without the rejected
\* call; an accepted call hands out the counter's value before the call.
C21_RejectedCreateLinkFrame ==
  [][ /\ (StepOf("createLink") /\ last'.tag # "created")
           => (/\ towers' = towers
               /\ links' = links
               /\ linkId' = linkId
               /\ NextLinkId' = NextLinkId)
      /\ (StepOf("createLink") /\ last'.tag = "created")
           => (/\ Len(links') = Len(links) + 1
               /\ links'[Len(links')].id = linkId) ]_vars

\* a duplicate was just rejected while a link is stored and the counter
\* stands at 2
C21_Witness ==
  /\ last.op = "createLink"
  /\ last.tag = DuplicateMessage
  /\ Len(links) = 1
  /\ linkId = 2

(* ---------------------------------------------------------------------- *)
\* C22: right after any addTower, no stored link has the id of the tower
\* just added as its aId or its bId, also when that id was held before by
\* a tower since removed.
C22_NewTowerHasNoLinks ==
  [][ StepOf("addTower")
        => (/\ Len(towers') = Len(towers) + 1
            /\ \A i \in DOMAIN links' :
                 ~Incident(links'[i], towers'[Len(towers')].id)) ]_vars

\* addTower has just handed out again the id of a removed tower, in a
\* session in which a link was created: within the depth bound the link
\* was on the removed tower
C22_Witness ==
  /\ last.op = "addTower"
  /\ last.tag = "reused"
  /\ assignedLinkIds # {}
  /\ towers[Len(towers)].id = last.id

(* ---------------------------------------------------------------------- *)
\* C23: in every reachable state the frequency text a link took at its
\* creation resolves to a frequency within the matching tolerance of the
\* current frequency of each of its two endpoint towers, whatever
\* updateTower calls the link has survived.
C23_SnapshotMatchesEndpoints ==
  \A i \in DOMAIN links : \A j \in DOMAIN towers :
    Incident(links[i], towers[j].id)
      => WithinTolerance(Hz(links[i].freqStr), Hz(towers[j].freqStr))

(* ---------------------------------------------------------------------- *)
\* a number greater than 0 (NaN and zero are not)
C24_StrictlyPositive(f) == ~isNaN(f) /\ ~IsZero(f) /\ f.s = 1

\* C24: in every reachable state the frequency resolved from the text of
\* each stored link is a strictly positive number of Hz, never zero,
\* negative or NaN, so that 3e8 / freqHz in the zone computation divides
\* by a positive number.
C24_LinkFrequencyPositive ==
  \A i \in DOMAIN links : C24_StrictlyPositive(Hz(links[i].freqStr))

====
